---- MODULE Spec2Model ----
(***************************************************************************)
(* Chemical Research Agent (src/main.py): the chemical lookup chain        *)
(* (PubChem, Cactus, Wikidata), the paper search chain (Semantic Scholar,  *)
(* CrossRef, arXiv), and the Streamlit search handler that ties them to    *)
(* the history database and the paper cache.                               *)
(*                                                                         *)
(* Text is a sequence of characters, so that strip(), lower() and quote()   *)
(* are computed character by character.  Python's None is the              *)
(* distinguished value None below.                                         *)
(***************************************************************************)
EXTENDS Integers, Sequences, FiniteSets, TLC

\* ------------------------------------------------------------------ bounds

MaxItems == 2      \* longest item list one paper source answers with
MaxLimit == 3      \* largest limit search_papers is called with directly
MaxHistory == 1    \* most rows the history table holds in the model

\* --------------------------------------------------------- program constants

MAX_RETRIES == 3
DefaultLimit == 10

\* -------------------------------------------------------------------- text

None == <<"None">>

Truthy(v) == v # None /\ v # <<>>

Or(a, b) == IF Truthy(a) THEN a ELSE b

\* The alphabet: the printable ASCII characters, each its own one-character
\* string and listed by code point from 32 (space) to 126 (~), and every other
\* character str.isspace() is true of, named by its escape or as "U+XXXX"
\* (as is the grave accent, which a string of this language cannot hold).
Printable ==
    <<
      " ", "!", "\"", "#", "$", "%", "&", "'", "(", ")", "*", "+", ",", "-", ".", "/",
      "0", "1", "2", "3", "4", "5", "6", "7", "8", "9", ":", ";", "<", "=", ">", "?",
      "@", "A", "B", "C", "D", "E", "F", "G", "H", "I", "J", "K", "L", "M", "N", "O",
      "P", "Q", "R", "S", "T", "U", "V", "W", "X", "Y", "Z", "[", "\\", "]", "^", "_",
      "U+0060", "a", "b", "c", "d", "e", "f", "g", "h", "i", "j", "k", "l", "m", "n", "o",
      "p", "q", "r", "s", "t", "u", "v", "w", "x", "y", "z", "{", "|", "}", "~"
    >>

OtherWhitespace ==
    {
     [c |-> "\t", code |-> 9], [c |-> "\n", code |-> 10], [c |-> "U+000B", code |-> 11],
     [c |-> "\f", code |-> 12], [c |-> "\r", code |-> 13], [c |-> "U+001C", code |-> 28],
     [c |-> "U+001D", code |-> 29], [c |-> "U+001E", code |-> 30], [c |-> "U+001F", code |-> 31],
     [c |-> "U+0085", code |-> 133], [c |-> "U+00A0", code |-> 160], [c |-> "U+1680", code |-> 5760],
     [c |-> "U+2000", code |-> 8192], [c |-> "U+2001", code |-> 8193], [c |-> "U+2002", code |-> 8194],
     [c |-> "U+2003", code |-> 8195], [c |-> "U+2004", code |-> 8196], [c |-> "U+2005", code |-> 8197],
     [c |-> "U+2006", code |-> 8198], [c |-> "U+2007", code |-> 8199], [c |-> "U+2008", code |-> 8200],
     [c |-> "U+2009", code |-> 8201], [c |-> "U+200A", code |-> 8202], [c |-> "U+2028", code |-> 8232],
     [c |-> "U+2029", code |-> 8233], [c |-> "U+202F", code |-> 8239], [c |-> "U+205F", code |-> 8287],
     [c |-> "U+3000", code |-> 12288]
    }

IsPrintable(c) == \E i \in 1..Len(Printable) : Printable[i] = c

\* The code point of a character of the alphabet.
Code(c) ==
    IF IsPrintable(c)
    THEN 31 + (CHOOSE i \in 1..Len(Printable) : Printable[i] = c)
    ELSE (CHOOSE e \in OtherWhitespace : e.c = c).code

\* The characters str.strip() removes.
IsSpace(c) == c = " " \/ \E e \in OtherWhitespace : e.c = c

RECURSIVE LStrip(_)
LStrip(s) == IF s # <<>> /\ IsSpace(Head(s)) THEN LStrip(Tail(s)) ELSE s

RECURSIVE RStrip(_)
RStrip(s) ==
    IF s # <<>> /\ IsSpace(s[Len(s)]) THEN RStrip(SubSeq(s, 1, Len(s) - 1)) ELSE s

Strip(s) == RStrip(LStrip(s))

IsUpper(c) == IsPrintable(c) /\ Code(c) >= 65 /\ Code(c) <= 90

\* str.lower() on the alphabet: A-Z go to a-z, nothing else is cased.
LowerChar(c) == IF IsUpper(c) THEN Printable[Code(c) + 32 - 31] ELSE c

Lower(s) == [i \in 1..Len(s) |-> LowerChar(s[i])]

HexDigit(n) == Printable[IF n < 10 THEN 17 + n ELSE 24 + n]

PercentByte(b) == <<"%", HexDigit(b \div 16), HexDigit(b % 16)>>

\* The UTF-8 bytes of a code point below 65536.
Utf8(n) ==
    IF n < 128 THEN <<n>>
    ELSE IF n < 2048 THEN <<192 + (n \div 64), 128 + (n % 64)>>
    ELSE <<224 + (n \div 4096), 128 + ((n \div 64) % 64), 128 + (n % 64)>>

\* quote() leaves letters, digits and _ . - ~ / alone.
IsQuoteSafe(c) ==
    /\ IsPrintable(c)
    /\ \/ (Code(c) >= 48 /\ Code(c) <= 57)
       \/ (Code(c) >= 65 /\ Code(c) <= 90)
       \/ (Code(c) >= 97 /\ Code(c) <= 122)
       \/ c \in {"_", ".", "-", "~", "/"}

RECURSIVE PercentBytes(_)
PercentBytes(bs) ==
    IF bs = <<>> THEN <<>> ELSE PercentByte(Head(bs)) \o PercentBytes(Tail(bs))

QuoteChar(c) == IF IsQuoteSafe(c) THEN <<c>> ELSE PercentBytes(Utf8(Code(c)))

RECURSIVE Quote(_)
Quote(s) == IF s = <<>> THEN <<>> ELSE QuoteChar(Head(s)) \o Quote(Tail(s))

\* Python's s[:n]: the first n elements, or all but the last -n when n < 0.
Slice(s, n) ==
    IF n >= 0
    THEN SubSeq(s, 1, IF n < Len(s) THEN n ELSE Len(s))
    ELSE SubSeq(s, 1, IF Len(s) + n > 0 THEN Len(s) + n ELSE 0)

\* ------------------------------------------------------- chemical adapters
\* An adapter call ends by returning a value or by raising; net counts the
\* network requests it issued.

NoResult == [cid |-> None, image_url |-> None, source |-> None, matched_name |-> None]

Returned(v, n) == [raised |-> FALSE, value |-> v, net |-> n]

Raised(v, n) == [raised |-> TRUE, value |-> v, net |-> n]

CactusImageUrl(name) ==
    <<"https://cactus.nci.nih.gov/chemical/structure/">> \o Quote(name) \o <<"/image">>

\* r.cidCall: how session.get + raise_for_status of the CID request ended
\*   ("ok", "ssl", "http", "error"); r.retryCall: the verify=False retry
\*   ("ok", "error"); r.cidBody: [valid, cids], valid = FALSE when json()
\*   or the .get chain fails; r.nameCall: the IUPACName request incl. its
\*   json() ("ok", "error"); r.props: the Properties list, each entry
\*   [has, name] (has = FALSE: no IUPACName key; name = None: JSON null).
PubChemMatchedName(name_or_cas, r) ==
    IF r.nameCall = "ok" /\ r.props # <<>>
    THEN IF Head(r.props).has THEN Head(r.props).name ELSE name_or_cas
    ELSE name_or_cas

fetch_pubchem_image(name_or_cas, r) ==
    LET n1 == IF r.cidCall = "ssl" THEN 2 ELSE 1
        gotResponse == r.cidCall = "ok" \/ (r.cidCall = "ssl" /\ r.retryCall = "ok")
        matched_name == PubChemMatchedName(name_or_cas, r)
    IN  IF ~gotResponse THEN Returned(NoResult, n1)
        ELSE IF ~r.cidBody.valid THEN Raised(NoResult, n1)
        ELSE IF r.cidBody.cids = <<>> THEN Returned(NoResult, n1)
        ELSE IF matched_name = None THEN Raised(NoResult, n1 + 1)
        ELSE Returned([cid |-> Head(r.cidBody.cids),
                       image_url |-> CactusImageUrl(matched_name),
                       source |-> <<"PubChem (Cactus)">>,
                       matched_name |-> matched_name], n1 + 1)

\* r: "200", "404" (any other status) or "error" (the HEAD request raised).
fetch_cactus_image(name_or_cas, r) ==
    IF r = "200"
    THEN Returned([cid |-> None, image_url |-> CactusImageUrl(name_or_cas),
                   source |-> <<"Cactus">>, matched_name |-> name_or_cas], 1)
    ELSE Returned(NoResult, 1)

\* r.call: "ok" or "error" (transport, status or json() failure, all inside
\*   the try); r.results: the "search" list, each entity [has, label, id].
fetch_wikidata(name_or_cas, r) ==
    IF r.call = "ok" /\ r.results # <<>>
    THEN LET entity == Head(r.results)
         IN  Returned([cid |-> None,
                       image_url |-> <<"https://www.wikidata.org/wiki/">> \o entity.id,
                       source |-> <<"Wikidata">>,
                       matched_name |-> IF entity.has THEN entity.label
                                        ELSE name_or_cas], 1)
    ELSE Returned(NoResult, 1)

\* fetch_chemical_info with the first two sources asked in the wrong order.
fetch_chemical_info_cactus_first(name_or_cas, rp, rc, rw) ==
    LET p == fetch_pubchem_image(name_or_cas, rp)
        c == fetch_cactus_image(name_or_cas, rc)
        w == fetch_wikidata(name_or_cas, rw)
    IN  IF Truthy(c.value.image_url) THEN c
        ELSE IF p.raised THEN Raised(NoResult, c.net + p.net)
        ELSE IF Truthy(p.value.cid) \/ Truthy(p.value.image_url)
             THEN Returned(p.value, c.net + p.net)
        ELSE IF Truthy(w.value.image_url)
             THEN Returned(w.value, p.net + c.net + w.net)
        ELSE Returned(NoResult, p.net + c.net + w.net)

\* The lookup chain; cactus and wikidata are asked only when needed, and a
\* raise of fetch_pubchem_image propagates.
fetch_chemical_info(name_or_cas, rp, rc, rw) ==
    LET p == fetch_pubchem_image(name_or_cas, rp)
        c == fetch_cactus_image(name_or_cas, rc)
        w == fetch_wikidata(name_or_cas, rw)
    IN  IF p.raised THEN p
        ELSE IF Truthy(p.value.cid) \/ Truthy(p.value.image_url) THEN p
        ELSE IF Truthy(c.value.image_url) THEN Returned(c.value, p.net + c.net)
        ELSE IF Truthy(w.value.image_url)
             THEN Returned(w.value, p.net + c.net + w.net)
        ELSE Returned(NoResult, p.net + c.net + w.net)

\* ---------------------------------------------------------- paper adapters
\* One HTTP exchange of a paper source is [kind, items, ssl]: "transport"
\* (safe_get raised), "status" (a response that is not 200 / 2xx), "malformed"
\* (a 2xx body whose json() or field mapping raises) or "ok" (a body holding
\* items).  ssl = TRUE: the first request ended in a certificate error and
\* kind is how safe_get's second request, with verify=False, ended.
\* An item of Semantic Scholar or CrossRef is [title, year], an entry of the
\* arXiv feed is [title, published] (None: the element has no text).  The
\* record an adapter returns is [title, year].  A year is [kind, n, s]:
\* "none" (None), "int" (the number n), "str" (the text s) or, in an item
\* only, "absent" (the key is missing).

NoYear == [kind |-> "none", n |-> 0, s |-> <<>>]

AbsentYear == [kind |-> "absent", n |-> 0, s |-> <<>>]

IntYear(n) == [kind |-> "int", n |-> n, s |-> <<>>]

StrYear(s) == [kind |-> "str", n |-> 0, s |-> s]

\* paper.get("year", "N/A")
SemanticRecord(item) ==
    [title |-> item.title,
     year |-> IF item.year.kind = "absent" THEN StrYear(<<"N", "/", "A">>)
              ELSE item.year]

\* item.get("issued", {}).get("date-parts", [[None]])[0][0]
CrossrefRecord(item) ==
    [title |-> item.title,
     year |-> IF item.year.kind = "absent" THEN NoYear ELSE item.year]

\* title.text.strip() and published.text[:4]
ArxivRecord(entry) ==
    [title |-> Strip(entry.title), year |-> StrYear(Slice(entry.published, 4))]

Blank(query) == Strip(query) = <<>>

\* The number of requests one call of safe_get issues.
safe_get(e) == IF e.ssl THEN 2 ELSE 1

RECURSIVE SemanticAttempt(_, _, _)
SemanticAttempt(i, limit, r) ==
    IF i > MAX_RETRIES \/ i > Len(r) THEN Returned(<<>>, 0)
    ELSE IF r[i].kind = "ok"
         THEN Returned(Slice([k \in 1..Len(r[i].items) |->
                                 SemanticRecord(r[i].items[k])], limit),
                       safe_get(r[i]))
    ELSE LET rest == SemanticAttempt(i + 1, limit, r)
         IN  [rest EXCEPT !.net = @ + safe_get(r[i])]

\* r: the outcomes of the successive attempts, one per retry.
search_semantic_scholar(query, limit, r) ==
    IF Blank(query) THEN Returned(<<>>, 0) ELSE SemanticAttempt(1, limit, r)

search_crossref(query, limit, r) ==
    IF Blank(query) THEN Returned(<<>>, 0)
    ELSE IF r.kind \in {"transport", "status"} THEN Returned(<<>>, safe_get(r))
    ELSE IF r.kind = "malformed" THEN Raised(<<>>, safe_get(r))
    ELSE Returned(Slice([k \in 1..Len(r.items) |-> CrossrefRecord(r.items[k])],
                        limit), safe_get(r))

\* The whole feed is parsed inside one try: an entry without a title or a
\* published text drops every entry.
search_arxiv(query, limit, r) ==
    IF Blank(query) THEN Returned(<<>>, 0)
    ELSE IF r.kind \in {"transport", "status", "malformed"}
         THEN Returned(<<>>, safe_get(r))
    ELSE IF \E i \in 1..Len(r.items) :
                r.items[i].title = None \/ r.items[i].published = None
         THEN Returned(<<>>, safe_get(r))
    ELSE Returned(Slice([k \in 1..Len(r.items) |-> ArxivRecord(r.items[k])],
                        limit), safe_get(r))

MultipleSources == <<"Multiple Sources">>

\* The string "None", which is not Python's None.
NoSource == <<"N", "o", "n", "e">>

PapersReturned(papers, source_used, n) ==
    [raised |-> FALSE, papers |-> papers, source_used |-> source_used, net |-> n]

PapersRaised(n) ==
    [raised |-> TRUE, papers |-> <<>>, source_used |-> NoSource, net |-> n]

\* search_papers asking every source for the full limit and returning
\* everything it collected.
search_papers_overfetch(query, limit, rs, rc, ra) ==
    LET s == search_semantic_scholar(query, limit, rs)
        c == search_crossref(query, limit, rc)
        a == search_arxiv(query, limit, ra)
        all3 == s.value \o c.value \o a.value
    IN  IF c.raised THEN PapersRaised(s.net + c.net)
        ELSE PapersReturned(all3, IF all3 # <<>> THEN MultipleSources ELSE NoSource,
                            s.net + c.net + a.net)

\* search_papers with its final return inside the loop: it returns after the
\* first source whatever that source gave.
search_papers_first_only(query, limit, rs, rc, ra) ==
    LET s == search_semantic_scholar(query, limit, rs)
    IN  PapersReturned(Slice(s.value, limit),
                       IF s.value # <<>> THEN MultipleSources ELSE NoSource, s.net)

\* The loop over the three sources, unrolled: each source is asked for what is
\* still missing, the loop returns early once limit records are collected, and
\* a raise of an adapter propagates.
search_papers(query, limit, rs, rc, ra) ==
    LET s == search_semantic_scholar(query, limit, rs)
        all1 == s.value
        c == search_crossref(query, limit - Len(all1), rc)
        all2 == all1 \o c.value
        a == search_arxiv(query, limit - Len(all2), ra)
        all3 == all2 \o a.value
    IN  IF s.value # <<>> /\ Len(all1) >= limit
        THEN PapersReturned(Slice(all1, limit), MultipleSources, s.net)
        ELSE IF c.raised THEN PapersRaised(s.net + c.net)
        ELSE IF c.value # <<>> /\ Len(all2) >= limit
        THEN PapersReturned(Slice(all2, limit), MultipleSources, s.net + c.net)
        ELSE IF a.value # <<>> /\ Len(all3) >= limit
        THEN PapersReturned(Slice(all3, limit), MultipleSources,
                            s.net + c.net + a.net)
        ELSE PapersReturned(all3, IF all3 # <<>> THEN MultipleSources ELSE NoSource,
                            s.net + c.net + a.net)

\* ------------------------------------------------------------ input domains

Queries == {<<>>, <<"\t", " ">>, <<"a">>, <<" ", "a">>, <<"C", "=", "O">>}

NameB == <<"b">>

Cid1 == <<"2", "2", "4", "4">>

CidBodies ==
    {[valid |-> FALSE, cids |-> <<>>], [valid |-> TRUE, cids |-> <<>>],
     [valid |-> TRUE, cids |-> <<Cid1>>]}

PropsLists ==
    {<<>>, <<[has |-> FALSE, name |-> None]>>, <<[has |-> TRUE, name |-> None]>>,
     <<[has |-> TRUE, name |-> <<>>]>>, <<[has |-> TRUE, name |-> NameB]>>}

PubChemResponses ==
    [cidCall : {"ok", "ssl", "http", "error"}, retryCall : {"ok", "error"},
     cidBody : CidBodies, nameCall : {"ok", "error"}, props : PropsLists]

CactusResponses == {"200", "404", "error"}

EntityLists ==
    {<<>>} \cup
    {<<[has |-> h, label |-> l, id |-> <<"Q", "1">>]>> :
        h \in BOOLEAN, l \in {None, NameB}}

WikidataResponses == [call : {"ok", "error"}, results : EntityLists]

PaperA == [title |-> <<"x">>, year |-> IntYear(2020)]

PaperB == [title |-> <<" ", "X", " ">>, year |-> NoYear]

PaperC == [title |-> <<"y">>, year |-> IntYear(2023)]

PaperD == [title |-> <<"Y">>, year |-> AbsentYear]

Papers == {PaperA, PaperB, PaperC}

EntryA == [title |-> <<"\n", "X", " ">>, published |-> <<"2", "0", "2", "1", "-", "0", "5">>]

EntryB == [title |-> <<"z">>, published |-> None]

EntryC == [title |-> <<"y">>, published |-> <<"2", "0", "2", "3", "-", "0", "1">>]

Entries == {EntryA, EntryB, EntryC}

\* The item lists of at most n records in which no record occurs twice.
ItemLists(P, n) ==
    UNION {{l \in [1..k -> P] : \A i, j \in 1..k : l[i] = l[j] => i = j} :
              k \in 0..n}

Failure(k) == [kind |-> k, items |-> <<>>, ssl |-> FALSE]

\* The same exchange reached by the verify=False request after a certificate
\* error.
AfterCertificateError(e) == [e EXCEPT !.ssl = TRUE]

DirectExchanges(P, n) ==
    {Failure(k) : k \in {"transport", "status", "malformed"}} \cup
    {[kind |-> "ok", items |-> l, ssl |-> FALSE] : l \in ItemLists(P, n)}

Exchanges(P, n) ==
    DirectExchanges(P, n) \cup
    {AfterCertificateError(e) : e \in DirectExchanges(P, n)}

\* Every attempt sequence of Semantic Scholar over short exchanges.
SemanticRuns == [1..MAX_RETRIES -> Exchanges(Papers \cup {PaperD}, 1)]

\* Attempt sequences in which every attempt ends the same way.
SteadyRuns == {[i \in 1..MAX_RETRIES |-> e] : e \in Exchanges(Papers, MaxItems)}

Limits == 0..MaxLimit

\* ------------------------------------------------------------------- state

VARIABLES
    arg,             \* a direct call of one function: its name, inputs, responses
    ret,             \* what that call ended with
    pc,              \* this session's handler position: "idle", "resolve", "papers"
    run,             \* what this session's current (or last) press of Search did
    db,              \* rows of the chemicals table (shared by all sessions), oldest first
    cache            \* st.cache_data of get_papers (shared): entries [query, papers, source_used]

vars == <<arg, ret, pc, run, db, cache>>

QuietPub ==
    [cidCall |-> "error", retryCall |-> "error",
     cidBody |-> [valid |-> TRUE, cids |-> <<>>], nameCall |-> "error", props |-> <<>>]

QuietWik == [call |-> "error", results |-> <<>>]

QuietRun == [i \in 1..MAX_RETRIES |-> Failure("transport")]

NoCall ==
    [fn |-> "none", query |-> <<>>, limit |-> 0, pub |-> QuietPub, cac |-> "error",
     wik |-> QuietWik, sem |-> QuietRun, cr |-> Failure("transport"),
     ax |-> Failure("transport")]

NoRet ==
    [done |-> FALSE, chem |-> Returned(NoResult, 0), list |-> Returned(<<>>, 0),
     papers |-> PapersReturned(<<>>, NoSource, 0)]

SavedNothing ==
    [input_name |-> None, matched_name |-> None, cid |-> None, image_url |-> None]

NoRun ==
    [status |-> "none", input |-> <<>>, match |-> NoResult, search_term |-> None,
     saves |-> 0, saved |-> SavedNothing, hint |-> FALSE, paper_term |-> None,
     searched |-> FALSE, papers |-> "none"]

AppInit == pc = "idle" /\ run = NoRun /\ db = <<>> /\ cache = {}

\* ------------------------------------------------- direct calls (functions)

ChemAdapterCalls ==
    \/ \E q \in Queries, r \in PubChemResponses :
          arg = [NoCall EXCEPT !.fn = "fetch_pubchem_image", !.query = q, !.pub = r]
    \/ \E q \in Queries, r \in CactusResponses :
          arg = [NoCall EXCEPT !.fn = "fetch_cactus_image", !.query = q, !.cac = r]
    \/ \E q \in Queries, r \in WikidataResponses :
          arg = [NoCall EXCEPT !.fn = "fetch_wikidata", !.query = q, !.wik = r]

PaperAdapterCalls ==
    \/ \E q \in Queries, l \in Limits, r \in SemanticRuns :
          arg = [NoCall EXCEPT !.fn = "search_semantic_scholar", !.query = q,
                               !.limit = l, !.sem = r]
    \/ \E q \in Queries, l \in Limits,
          r \in Exchanges(Papers \cup {PaperD}, MaxItems) :
          arg = [NoCall EXCEPT !.fn = "search_crossref", !.query = q,
                               !.limit = l, !.cr = r]
    \/ \E q \in Queries, l \in Limits, r \in Exchanges(Entries, MaxItems) :
          arg = [NoCall EXCEPT !.fn = "search_arxiv", !.query = q, !.limit = l,
                               !.ax = r]

ResolverCalls ==
    \E q \in Queries, rp \in PubChemResponses, rc \in CactusResponses,
       rw \in WikidataResponses :
        arg = [NoCall EXCEPT !.fn = "fetch_chemical_info", !.query = q,
                             !.pub = rp, !.cac = rc, !.wik = rw]

AggregatorCalls ==
    \E q \in {<<"\t", " ">>, <<"a">>}, l \in Limits, rs \in SteadyRuns,
       rc \in Exchanges(Papers, MaxItems), ra \in Exchanges(Entries, MaxItems) :
        arg = [NoCall EXCEPT !.fn = "search_papers", !.query = q, !.limit = l,
                             !.sem = rs, !.cr = rc, !.ax = ra]

InitFn ==
    /\ ChemAdapterCalls \/ PaperAdapterCalls \/ ResolverCalls \/ AggregatorCalls
    /\ ret = NoRet
    /\ AppInit

CallFetchPubchemImage ==
    /\ ~ret.done
    /\ arg.fn = "fetch_pubchem_image"
    /\ ret' = [NoRet EXCEPT !.done = TRUE,
                   !.chem = fetch_pubchem_image(arg.query, arg.pub)]
    /\ UNCHANGED <<arg, pc, run, db, cache>>

CallFetchCactusImage ==
    /\ ~ret.done
    /\ arg.fn = "fetch_cactus_image"
    /\ ret' = [NoRet EXCEPT !.done = TRUE,
                   !.chem = fetch_cactus_image(arg.query, arg.cac)]
    /\ UNCHANGED <<arg, pc, run, db, cache>>

CallFetchWikidata ==
    /\ ~ret.done
    /\ arg.fn = "fetch_wikidata"
    /\ ret' = [NoRet EXCEPT !.done = TRUE,
                   !.chem = fetch_wikidata(arg.query, arg.wik)]
    /\ UNCHANGED <<arg, pc, run, db, cache>>

CallFetchChemicalInfo ==
    /\ ~ret.done
    /\ arg.fn = "fetch_chemical_info"
    /\ ret' = [NoRet EXCEPT !.done = TRUE,
                   !.chem = fetch_chemical_info(arg.query, arg.pub, arg.cac, arg.wik)]
    /\ UNCHANGED <<arg, pc, run, db, cache>>

CallSearchSemanticScholar ==
    /\ ~ret.done
    /\ arg.fn = "search_semantic_scholar"
    /\ ret' = [NoRet EXCEPT !.done = TRUE,
                   !.list = search_semantic_scholar(arg.query, arg.limit, arg.sem)]
    /\ UNCHANGED <<arg, pc, run, db, cache>>

CallSearchCrossref ==
    /\ ~ret.done
    /\ arg.fn = "search_crossref"
    /\ ret' = [NoRet EXCEPT !.done = TRUE,
                   !.list = search_crossref(arg.query, arg.limit, arg.cr)]
    /\ UNCHANGED <<arg, pc, run, db, cache>>

CallSearchArxiv ==
    /\ ~ret.done
    /\ arg.fn = "search_arxiv"
    /\ ret' = [NoRet EXCEPT !.done = TRUE,
                   !.list = search_arxiv(arg.query, arg.limit, arg.ax)]
    /\ UNCHANGED <<arg, pc, run, db, cache>>

CallSearchPapers ==
    /\ ~ret.done
    /\ arg.fn = "search_papers"
    /\ ret' = [NoRet EXCEPT !.done = TRUE,
                   !.papers = search_papers(arg.query, arg.limit, arg.sem, arg.cr, arg.ax)]
    /\ UNCHANGED <<arg, pc, run, db, cache>>

NextFn ==
    \/ CallFetchPubchemImage
    \/ CallFetchCactusImage
    \/ CallFetchWikidata
    \/ CallFetchChemicalInfo
    \/ CallSearchSemanticScholar
    \/ CallSearchCrossref
    \/ CallSearchArxiv
    \/ CallSearchPapers

SpecFn == InitFn /\ [][NextFn]_vars

\* ------------------------------------------------- the search handler (app)

NA == <<"N", "/", "A">>

\* search_term = matched_name or chemical_input
SearchTermRawInput(matched_name, chemical_input) == chemical_input

SearchTerm(matched_name, chemical_input) == Or(matched_name, chemical_input)

\* The arguments of save_chemical: matched_name or "", cid or "N/A",
\* image_url or "".
SavedRowRawCid(chemical_input, m) ==
    [input_name |-> chemical_input, matched_name |-> Or(m.matched_name, <<>>),
     cid |-> m.cid, image_url |-> Or(m.image_url, <<>>)]

SavedRow(chemical_input, m) ==
    [input_name |-> chemical_input, matched_name |-> Or(m.matched_name, <<>>),
     cid |-> Or(m.cid, NA), image_url |-> Or(m.image_url, <<>>)]

\* outcome: "ok"; "insert_error" (connect or INSERT fails: printed and
\* swallowed, nothing saved); "init_error" (initialize_db, which runs before
\* the try, fails: the exception leaves save_chemical).
save_chemical(rows, row, outcome) ==
    [raised |-> outcome = "init_error",
     rows |-> IF outcome = "ok" THEN Append(rows, row) ELSE rows]

SaveOutcomes == {"ok", "insert_error", "init_error"}

\* deleteOk = FALSE: the DELETE fails (locked or unreadable database); the
\* error is printed and swallowed and the rows stay.
clear_history(rows, deleteOk) == IF deleteOk THEN <<>> ELSE rows

AppInputs == {<<"\t", " ">>, <<"a">>}

AppPubChemResponses ==
    [cidCall : {"ok", "http"}, retryCall : {"error"}, cidBody : CidBodies,
     nameCall : {"ok"}, props : PropsLists]

AppCactusResponses == {"200", "404"}

AppWikidataResponses ==
    [call : {"ok", "error"},
     results : {<<>>, <<[has |-> FALSE, label |-> None, id |-> <<"Q", "1">>]>>,
                <<[has |-> TRUE, label |-> NameB, id |-> <<"Q", "1">>]>>}]

AppExchanges(p, failures) ==
    {Failure(k) : k \in failures} \cup
    {[kind |-> "ok", items |-> <<>>, ssl |-> FALSE],
     [kind |-> "ok", items |-> <<p>>, ssl |-> FALSE]}

AppSemanticRuns ==
    {[i \in 1..MAX_RETRIES |-> e] : e \in AppExchanges(PaperA, {"transport"})}

\* Pressing Search with chemical_input in the text box: a blank input only
\* shows a warning, any other starts the lookup.
Search(chemical_input) ==
    /\ pc = "idle"
    /\ Len(db) < MaxHistory
    /\ IF Blank(chemical_input)
       THEN /\ run' = [NoRun EXCEPT !.status = "blank", !.input = chemical_input]
            /\ pc' = "idle"
       ELSE /\ run' = [NoRun EXCEPT !.status = "resolving", !.input = chemical_input]
            /\ pc' = "resolve"
    /\ UNCHANGED <<arg, ret, db, cache>>

\* fetch_chemical_info answers: the search term is derived, and either the
\* match is saved and the paper search follows, or the not-found hint with
\* the manual search links is shown and the handler ends.  A raise of
\* fetch_chemical_info or of save_chemical ends the script run.  The lookup
\* reads and writes nothing shared, so what other sessions do to the table
\* while it waits on the network is what they do before this step.
ResolveChemical(rp, rc, rw, saveOutcome) ==
    /\ pc = "resolve"
    /\ LET r == fetch_chemical_info(run.input, rp, rc, rw)
           m == r.value
       IN  IF r.raised
           THEN /\ run' = [run EXCEPT !.status = "crashed"]
                /\ pc' = "idle"
                /\ db' = db
           ELSE IF Truthy(m.cid) \/ Truthy(m.image_url)
           THEN LET saved == save_chemical(db, SavedRow(run.input, m), saveOutcome)
                IN  /\ run' = [run EXCEPT
                                  !.status = IF saved.raised THEN "save_crashed"
                                             ELSE "searching",
                                  !.match = m,
                                  !.search_term = SearchTerm(m.matched_name, run.input),
                                  !.saves = run.saves + 1,
                                  !.saved = SavedRow(run.input, m)]
                    /\ db' = saved.rows
                    /\ pc' = IF saved.raised THEN "idle" ELSE "papers"
           ELSE /\ run' = [run EXCEPT !.status = "not_found", !.match = m,
                               !.search_term = SearchTerm(m.matched_name, run.input),
                               !.hint = TRUE]
                /\ pc' = "idle"
                /\ db' = db
    /\ UNCHANGED <<arg, ret, cache>>

\* get_papers(search_term): the cached result if there is one, otherwise
\* search_papers with its default limit, cached when it returns; a raise is
\* caught by the handler and shown as a failed paper search.
PaperSearch(rs, rc, ra) ==
    /\ pc = "papers"
    /\ LET term == run.search_term
           hits == {e \in cache : e.query = term}
           r == search_papers(term, DefaultLimit, rs, rc, ra)
           shown(papers) == IF papers # <<>> THEN "shown" ELSE "empty"
       IN  IF hits # {}
           THEN /\ run' = [run EXCEPT !.status = "done", !.paper_term = term,
                               !.papers = shown((CHOOSE e \in hits : TRUE).papers)]
                /\ cache' = cache
           ELSE IF r.raised
           THEN /\ run' = [run EXCEPT !.status = "done", !.paper_term = term,
                               !.searched = TRUE, !.papers = "failed"]
                /\ cache' = cache
           ELSE /\ run' = [run EXCEPT !.status = "done", !.paper_term = term,
                               !.searched = TRUE, !.papers = shown(r.papers)]
                /\ cache' = cache \cup {[query |-> term, papers |-> r.papers,
                                          source_used |-> r.source_used]}
    /\ pc' = "idle"
    /\ UNCHANGED <<arg, ret, db>>

\* Pressing Clear History, in this session while it is idle or in any other
\* session at any time: the table is one file shared by all of them.
ClearHistory(deleteOk) ==
    /\ db' = clear_history(db, deleteOk)
    /\ UNCHANGED <<arg, ret, pc, run, cache>>

\* The rows a handler can pass to save_chemical: a non-blank input and a
\* match with a cid or an image.
HandlerRows ==
    {SavedRow(q.i, q.r.value) :
        q \in {x \in {[i |-> i,
                       r |-> fetch_chemical_info(i, rp, rc, rw)] :
                          i \in AppInputs, rp \in AppPubChemResponses,
                          rc \in AppCactusResponses, rw \in AppWikidataResponses} :
                   /\ ~Blank(x.i)
                   /\ ~x.r.raised
                   /\ Truthy(x.r.value.cid) \/ Truthy(x.r.value.image_url)}}

\* Another session's handler reaches its save_chemical: its row is appended
\* to the shared table.
OtherSessionSave(row) ==
    /\ Len(db) + (IF pc = "resolve" THEN 1 ELSE 0) < MaxHistory
    /\ db' = save_chemical(db, row, "ok").rows
    /\ UNCHANGED <<arg, ret, pc, run, cache>>

\* A cached get_papers result reaches its time-to-live.
CacheExpire ==
    /\ \E e \in cache : cache' = cache \ {e}
    /\ UNCHANGED <<arg, ret, pc, run, db>>

Init == arg = NoCall /\ ret = NoRet /\ AppInit

Next ==
    \/ \E chemical_input \in AppInputs : Search(chemical_input)
    \/ \E rp \in AppPubChemResponses, rc \in AppCactusResponses,
          rw \in AppWikidataResponses, saveOutcome \in SaveOutcomes :
            ResolveChemical(rp, rc, rw, saveOutcome)
    \/ \E rs \in AppSemanticRuns,
          rc \in AppExchanges(PaperB, {"transport", "malformed"}),
          ra \in AppExchanges(EntryC, {"malformed"}) : PaperSearch(rs, rc, ra)
    \/ \E deleteOk \in BOOLEAN : ClearHistory(deleteOk)
    \/ \E row \in HandlerRows : OtherSessionSave(row)
    \/ CacheExpire

Spec == Init /\ [][Next]_vars

\* --------------------------------------------------- claims on the functions

Produced(r) == ~r.raised /\ (Truthy(r.value.cid) \/ Truthy(r.value.image_url))

PubChemOutcome == fetch_pubchem_image(arg.query, arg.pub)

CactusOutcome == fetch_cactus_image(arg.query, arg.cac)

WikidataOutcome == fetch_wikidata(arg.query, arg.wik)

ResolverDone == ret.done /\ arg.fn = "fetch_chemical_info"

\* C1 as stated: whenever fetch_chemical_info returns, it returns PubChem's
\* match if PubChem produced one, otherwise Cactus's match if Cactus produced
\* one, and otherwise no match (None).
C1_TwoSourcePriority ==
    (ResolverDone /\ ~ret.chem.raised) =>
        ret.chem.value =
            IF Produced(PubChemOutcome) THEN PubChemOutcome.value
            ELSE IF Produced(CactusOutcome) THEN CactusOutcome.value
            ELSE NoResult

\* C1 amended: fetch_chemical_info returns PubChem's match if PubChem produced
\* one, otherwise Cactus's match if Cactus produced one, otherwise Wikidata's
\* match if Wikidata produced one, and otherwise None; the source field names
\* the source chosen; the call raises exactly when fetch_pubchem_image raises.
C1_ThreeSourcePriority ==
    ResolverDone =>
        /\ ret.chem.raised <=> PubChemOutcome.raised
        /\ ~ret.chem.raised =>
              /\ ret.chem.value =
                    IF Produced(PubChemOutcome) THEN PubChemOutcome.value
                    ELSE IF Produced(CactusOutcome) THEN CactusOutcome.value
                    ELSE IF Produced(WikidataOutcome) THEN WikidataOutcome.value
                    ELSE NoResult
              /\ ret.chem.value.source =
                    IF Produced(PubChemOutcome) THEN <<"PubChem (Cactus)">>
                    ELSE IF Produced(CactusOutcome) THEN <<"Cactus">>
                    ELSE IF Produced(WikidataOutcome) THEN <<"Wikidata">>
                    ELSE None

\* C1 witness: PubChem and Cactus produced nothing, Wikidata did, and its
\* match was returned.
C1_WikidataChosen ==
    /\ ResolverDone
    /\ ~PubChemOutcome.raised
    /\ ~Produced(PubChemOutcome)
    /\ ~Produced(CactusOutcome)
    /\ Produced(WikidataOutcome)
    /\ ret.chem.value.source = <<"Wikidata">>

AggregatorDone == ret.done /\ arg.fn = "search_papers"

NormalizedTitle(p) == Lower(Strip(p.title))

IsDigit(c) == IsPrintable(c) /\ Code(c) >= 48 /\ Code(c) <= 57

RECURSIVE Decimal(_)
Decimal(s) == IF s = <<>> THEN 0 ELSE 10 * Decimal(SubSeq(s, 1, Len(s) - 1)) + (Code(s[Len(s)]) - 48)

HasYear(p) ==
    \/ p.year.kind = "int"
    \/ (p.year.kind = "str" /\ p.year.s # <<>>
          /\ \A i \in 1..Len(p.year.s) : IsDigit(p.year.s[i]))

YearOf(p) == IF p.year.kind = "int" THEN p.year.n ELSE Decimal(p.year.s)

\* a sorts at or before b by year descending, a missing year last.
YearAtLeast(a, b) == ~HasYear(b) \/ (HasYear(a) /\ YearOf(a) >= YearOf(b))

\* What each source gives when asked for arg.limit records.
SemanticOutcome == search_semantic_scholar(arg.query, arg.limit, arg.sem)

CrossrefOutcome == search_crossref(arg.query, arg.limit, arg.cr)

ArxivOutcome == search_arxiv(arg.query, arg.limit, arg.ax)

Candidates ==
    {SemanticOutcome.value[i] : i \in 1..Len(SemanticOutcome.value)}
    \cup {CrossrefOutcome.value[i] : i \in 1..Len(CrossrefOutcome.value)}
    \cup {ArxivOutcome.value[i] : i \in 1..Len(ArxivOutcome.value)}

\* C2: the list search_papers returns holds no two records whose titles are
\* equal after trimming whitespace and ignoring case.
C2_NoDuplicateTitles ==
    (AggregatorDone /\ ~ret.papers.raised) =>
        \A i, j \in 1..Len(ret.papers.papers) :
            NormalizedTitle(ret.papers.papers[i]) = NormalizedTitle(ret.papers.papers[j])
                => i = j

\* C3: the list search_papers returns is ordered by year descending with the
\* records without a year last, and the records kept are those with the
\* highest years among all the candidates.
C3_SortedByYearThenTruncated ==
    (AggregatorDone /\ ~ret.papers.raised) =>
        LET out == ret.papers.papers
        IN  /\ \A i, j \in 1..Len(out) : i < j => YearAtLeast(out[i], out[j])
            /\ \A i \in 1..Len(out) :
                  \A p \in Candidates :
                      (\A k \in 1..Len(out) : NormalizedTitle(out[k]) # NormalizedTitle(p))
                          => YearAtLeast(out[i], p)

\* C4: for every limit >= 0 the list search_papers returns has at most limit
\* records.
C4_AtMostLimit ==
    (AggregatorDone /\ ~ret.papers.raised) => Len(ret.papers.papers) <= arg.limit

\* C4 witness: two sources answered with records, together more than limit,
\* and exactly limit records were returned.
C4_SeveralSourcesFillLimit ==
    /\ AggregatorDone
    /\ ~ret.papers.raised
    /\ arg.limit >= 2
    /\ SemanticOutcome.value # <<>>
    /\ CrossrefOutcome.value # <<>>
    /\ Len(SemanticOutcome.value) + Len(CrossrefOutcome.value) > arg.limit
    /\ Len(ret.papers.papers) = arg.limit

\* C5: when every source returns (records or nothing), search_papers returns
\* too; if only one source returned records the output is exactly those
\* records; the output is empty only when all three sources returned nothing.
C5_PartialFailureTolerated ==
    (AggregatorDone /\ ~CrossrefOutcome.raised) =>
        LET s == SemanticOutcome.value
            c == CrossrefOutcome.value
            a == ArxivOutcome.value
            out == ret.papers.papers
        IN  /\ ~ret.papers.raised
            /\ (c = <<>> /\ a = <<>>) => out = s
            /\ (s = <<>> /\ a = <<>>) => out = c
            /\ (s = <<>> /\ c = <<>>) => out = a
            /\ out = <<>> <=> (s = <<>> /\ c = <<>> /\ a = <<>>)

\* C5 witness: Semantic Scholar and arXiv failed, CrossRef answered with two
\* records, and the output is those two records.
C5_OnlyCrossrefAnswered ==
    /\ AggregatorDone
    /\ arg.sem[1].kind = "transport"
    /\ arg.ax.kind = "malformed"
    /\ Len(CrossrefOutcome.value) = 2
    /\ ret.papers.papers = CrossrefOutcome.value

AdapterNames ==
    {"fetch_pubchem_image", "fetch_cactus_image", "fetch_wikidata",
     "search_semantic_scholar", "search_crossref", "search_arxiv"}

\* C8: every adapter called with an empty or whitespace-only query returns
\* "no result" and issues no network request.
C8_BlankQueryNoNetwork ==
    (ret.done /\ arg.fn \in AdapterNames /\ Blank(arg.query)) =>
        /\ ret.chem = Returned(NoResult, 0)
        /\ ret.list = Returned(<<>>, 0)

\* C9: no call of an adapter, of fetch_chemical_info or of search_papers ends
\* by raising.
C9_NothingRaises ==
    ret.done => (~ret.chem.raised /\ ~ret.list.raised /\ ~ret.papers.raised)

\* ------------------------------------------------ claims on the search handler

Resolved == Truthy(run.match.cid) \/ Truthy(run.match.image_url)

\* C6: a search request with a non-blank input whose chemical resolution
\* failed at every source has, once the handler is through, searched papers
\* with the raw input text as the term, beside showing the manual-search hint.
C6_PaperSearchAfterFailedResolution ==
    (pc = "idle" /\ run.status = "not_found") =>
        (run.hint /\ run.paper_term = run.input)

\* C7: the term passed to the paper search is the match's matched_name
\* whenever the resolver returned one, and the raw input only when no
\* matched_name is available.
C7_TermIsMatchedName ==
    /\ run.paper_term # None =>
          run.paper_term = IF Truthy(run.match.matched_name)
                           THEN run.match.matched_name ELSE run.input
    /\ (run.paper_term # None /\ run.paper_term = run.input) =>
          (~Truthy(run.match.matched_name) \/ run.match.matched_name = run.input)

\* C7 witness: the resolver matched input "a" to the name "b" and the paper
\* search was made with "b".
C7_SearchedByMatchedName ==
    /\ run.status = "done"
    /\ run.input = <<"a">>
    /\ run.match.matched_name = NameB
    /\ run.paper_term = NameB

\* C10: in every search request save_chemical is called exactly once if the
\* resolution succeeded, with "N/A" stored when the cid is absent, and never
\* if it failed or the input was blank; the paper search's outcome does not
\* change that.
C10_SavedOncePerResolution ==
    /\ run.saves = IF Resolved THEN 1 ELSE 0
    /\ run.status \in {"none", "blank", "resolving", "crashed", "not_found"} =>
          (run.saves = 0 /\ run.saved = SavedNothing)
    /\ run.status \in {"searching", "done", "save_crashed"} =>
          /\ run.saves = 1
          /\ run.saved.input_name = run.input
          /\ run.saved.cid = IF Truthy(run.match.cid) THEN run.match.cid ELSE NA

\* C10 witness: a match without cid was saved with "N/A" and the paper search
\* that followed failed.
C10_SavedThoughPaperSearchFailed ==
    /\ run.status = "done"
    /\ run.papers = "failed"
    /\ run.match.cid = None
    /\ run.saves = 1
    /\ run.saved.cid = NA

====
